---- MODULE Spec2Model ----
(***************************************************************************)
(* Model of the transcription job lifecycle of mn-transcribe-saas:         *)
(*   - the submission path  create_job      (src/backend/api.py)           *)
(*   - the worker           main / process  (src/backend/worker.py)        *)
(* The shared state is the jobs table, the Redis list QUEUE_KEY and the    *)
(* object store.  Every worker invocation and every create_job request is  *)
(* a sequential process; one action is one step of it (a Redis command,    *)
(* an SQL statement, the storage calls for one object, the subprocesses    *)
(* that prepare the audio, a recognition call), together with the handler  *)
(* its failure runs, so that concurrent invocations interleave between     *)
(* those steps as the processes do.                                        *)
(*                                                                         *)
(* File keys are taken as already normalised object names (create_job      *)
(* stores the normalised key, and the worker's own prefix stripping leaves *)
(* such a key unchanged).  Times are whole seconds.                        *)
(***************************************************************************)
EXTENDS Integers, Sequences, FiniteSets, TLC

\* ---------------------------------------------------------------- bounds
NumWorkers == 2          \* worker invocations (Cloud Run job executions)
MaxJobs    == 2          \* create_job requests, one job id each
MaxWords   == 3          \* words in a word list given to a data-path function
MaxTotalSec == 12        \* longest audio the chunk loop is run on, in seconds
MaxChunkSec == 5         \* largest CHUNK_SEC the chunk loop is run with
MaxChunks  == 2          \* chunks whose words are stitched
MaxSample  == 62         \* words in a list sampled for gibberish
MaxIterations == 14      \* iterations of the chunk loop that are followed

Workers == 1..NumWorkers
Jobs    == 1..MaxJobs
NoJob   == 0

\* ------------------------------------------------------------- constants
CHUNK_SEC == 55          \* worker.py: CHUNK_SEC default

Null      == "<null>"
NoDur     == -1
Durations == {0, 70}             \* durations the worker measures: no chunk, 55 s + 15 s
SubmittedDurations == {40}       \* durations create_job measures

\* Object keys are a base name and an extension.  presign gives every upload
\* a key of its own (uuid4 prefix); the j-th submission names the j-th upload.
NoKey      == [base |-> 0, ext |-> "none"]
FileKey(j) == [base |-> j, ext |-> "mp4"]

\* base, _ = os.path.splitext(key); out_key = f"{base}.srt"
SrtKey(k) == [k EXCEPT !.ext = "srt"]

Min(a, b) == IF a < b THEN a ELSE b

\* --------------------------------------------------- recognition results
Word(t, s, e) == [word |-> t, start |-> s, end |-> e]

\* what the backend may return for one chunk (times relative to the chunk)
Responses == { <<Word("uu", 3, 4), Word("sain", 1, 2)>> }

RECURSIVE InsertByStart(_, _)
InsertByStart(w, s) ==
    IF s = <<>> THEN <<w>>
    ELSE IF w.start < Head(s).start THEN <<w>> \o s
    ELSE <<Head(s)>> \o InsertByStart(w, Tail(s))

\* list.sort(key=start): stable, ascending
RECURSIVE SortByStart(_)
SortByStart(s) ==
    IF s = <<>> THEN <<>>
    ELSE InsertByStart(s[Len(s)], SortByStart(SubSeq(s, 1, Len(s) - 1)))

\* the tail of _transcribe_wav_sync_words: offset every word, then sort
WordsOut(resp, chunk_start_sec) ==
    SortByStart([i \in 1..Len(resp) |->
        Word(resp[i].word, chunk_start_sec + resp[i].start, chunk_start_sec + resp[i].end)])

\* ------------------------------------------------------------------ state
VARIABLES
    jobs,              \* the jobs table: job id -> row ("none" = no row)
    queue,             \* the Redis list QUEUE_KEY; index 1 is the left end
    store,             \* output objects written to the object store
    req,               \* position of each create_job request
    wk,                \* locals and position of each worker invocation
    calc               \* a function of the data path under evaluation: its
                       \* input and, once it has run, its result

vars == <<jobs, queue, store, req, wk, calc>>

\* no function is under evaluation
NoCalc == [fn |-> "none"]

NoRow == [status |-> "none", file_key |-> NoKey, srt_key |-> NoKey,
          error_msg |-> Null, duration_sec |-> NoDur, finished |-> FALSE]

\* job, pops, marked, failed_at and calls record what the invocation has done
\* so far; the other fields are the locals of main and process
WkInit == [pc |-> "start", job |-> NoJob, file_key |-> NoKey, pops |-> 0,
           marked |-> FALSE, failed_at |-> Null,
           total_dur |-> NoDur, start |-> 0, idx |-> 0,
           chunk_dur |-> 0, calls |-> <<>>, all_words |-> <<>>,
           out_key |-> NoKey]

Init ==
    /\ jobs = [j \in Jobs |-> NoRow]
    /\ queue = <<>>
    /\ store = {}
    /\ req = [j \in Jobs |-> "idle"]
    /\ wk = [w \in Workers |-> WkInit]
    /\ calc = NoCalc

Terminal == {"done", "failed"}
Ended    == {"exited", "raised", "crashed"}

\* ------------------------------------------------- create_job (api.py)
Msg(j) == [job_id |-> j, file_key |-> jobs[j].file_key]

\* Job ids are fresh uuid4 values; the k-th request is given id k.
NextRequest(j) == req[j] = "idle" /\ \A i \in Jobs : i < j => req[i] # "idle"

\* Any exit of create_job before the INSERT: redis not configured, no valid
\* user, duration unreadable, file too long, usage reservation refused.
CreateJobReject(j) ==
    /\ NextRequest(j)
    /\ req' = [req EXCEPT ![j] = "rejected"]
    /\ UNCHANGED <<jobs, queue, store, wk, calc>>

\* INSERT INTO jobs(id,file_key,status,engine,duration_sec) VALUES(..,'queued',..)
CreateJobInsert(j) ==
    /\ NextRequest(j)
    /\ \E d \in SubmittedDurations :
         jobs' = [jobs EXCEPT ![j] = [NoRow EXCEPT !.status = "queued",
                                                   !.file_key = FileKey(j),
                                                   !.duration_sec = d]]
    /\ req' = [req EXCEPT ![j] = "inserted"]
    /\ UNCHANGED <<queue, store, wk, calc>>

\* r.lpush(QUEUE_KEY, json.dumps(payload))
CreateJobPush(j) ==
    /\ req[j] = "inserted"
    /\ queue' = <<Msg(j)>> \o queue
    /\ req' = [req EXCEPT ![j] = "pushed"]
    /\ UNCHANGED <<jobs, store, wk, calc>>

\* r.ping() or r.lpush raises: HTTP 500, the inserted row stays
CreateJobPushFails(j) ==
    /\ req[j] = "inserted"
    /\ req' = [req EXCEPT ![j] = "enqueue_failed"]
    /\ UNCHANGED <<jobs, queue, store, wk, calc>>

\* ------------------------------------------------------ worker (worker.py)
At(w, p) == wk[w].pc = p

\* process moves on; no UPDATE is made
Goto(w, p) ==
    /\ wk' = [wk EXCEPT ![w].pc = p]
    /\ UNCHANGED jobs

\* what an invocation has done so far, with its locals dropped
Done(w) == [WkInit EXCEPT !.job = wk[w].job, !.pops = wk[w].pops,
                          !.marked = wk[w].marked, !.out_key = wk[w].out_key]

\* the process has ended: its locals are gone, what it did is kept (whether
\* the processing UPDATE was applied is kept for a killed process; the step
\* whose failure was handled is kept after the return that follows
\* _fail_job, with the chunk index and the calls c of a failed recognition)
End(w, p, step, c) ==
    wk' = [wk EXCEPT ![w] =
             [Done(w) EXCEPT !.pc = p, !.failed_at = step,
                             !.marked = (p = "crashed" /\ wk[w].marked),
                             !.idx = IF step = "recognize" THEN wk[w].idx ELSE 0,
                             !.calls = c]]

\* an exception no handler catches: it leaves process and main
Raise(w) ==
    /\ End(w, "raised", Null, <<>>)
    /\ UNCHANGED jobs

\* mutant of FailJob: the failed UPDATE writes duration_sec as well
FailJobWritesDuration(w, step, reason, c) ==
    \/ /\ jobs' = [jobs EXCEPT ![wk[w].job].status = "failed",
                               ![wk[w].job].error_msg = reason,
                               ![wk[w].job].duration_sec = wk[w].total_dur,
                               ![wk[w].job].finished = TRUE]
       /\ End(w, "exited", step, c)
    \/ /\ End(w, "raised", Null, c)
       /\ UNCHANGED jobs

\* mutant of FailJob: the caller does not return after _fail_job and runs on
\* to the final UPDATE
FailJobFallsThrough(w, step, reason, c) ==
    \/ /\ jobs' = [jobs EXCEPT ![wk[w].job].status = "failed",
                               ![wk[w].job].error_msg = reason,
                               ![wk[w].job].finished = TRUE]
       /\ wk' = [wk EXCEPT ![w].pc = "final"]
    \/ /\ End(w, "raised", Null, c)
       /\ UNCHANGED jobs

\* _fail_job(job, reason); return  -- the handler of a failed step:
\* UPDATE jobs SET status='failed', error_msg=:r, finished_at=now() WHERE id=:i,
\* then process and main return.  The UPDATE itself may raise, and nothing
\* catches that.  c is the list of recognition calls made for the chunk.
FailJob(w, step, reason, c) ==
    \/ /\ jobs' = [jobs EXCEPT ![wk[w].job].status = "failed",
                               ![wk[w].job].error_msg = reason,
                               ![wk[w].job].finished = TRUE]
       /\ End(w, "exited", step, c)
    \/ /\ End(w, "raised", Null, c)
       /\ UNCHANGED jobs

\* main, lines 426-442: r.ping(), GCS_BUCKET / s3.head_bucket checks.
\* Invocations are named in the order in which they start.
Startup(w) ==
    /\ At(w, "start")
    /\ \A v \in Workers : v < w => ~At(v, "start")
    /\ \/ Goto(w, "waiting")
       \/ Raise(w)
    /\ UNCHANGED <<queue, store, req, calc>>

\* mutant of Pop: the element at the left end is taken (lpop)
PopFromLeft(w) ==
    /\ At(w, "waiting")
    /\ queue # <<>>
    /\ LET m == queue[1] IN
         wk' = [wk EXCEPT ![w].pc = "popped", ![w].job = m.job_id,
                          ![w].file_key = m.file_key, ![w].pops = @ + 1]
    /\ queue' = Tail(queue)
    /\ UNCHANGED <<jobs, store, req, calc>>

\* mutant of Pop: the element is read but not removed from the list
PopNoRemove(w) ==
    /\ At(w, "waiting")
    /\ queue # <<>>
    /\ LET m == queue[Len(queue)] IN
         wk' = [wk EXCEPT ![w].pc = "popped", ![w].job = m.job_id,
                          ![w].file_key = m.file_key, ![w].pops = @ + 1]
    /\ UNCHANGED <<jobs, queue, store, req, calc>>

\* r.brpop(QUEUE_KEY, timeout=30) returns the element at the right end;
\* job = json.loads(payload)
Pop(w) ==
    /\ At(w, "waiting")
    /\ queue # <<>>
    /\ LET m == queue[Len(queue)] IN
         wk' = [wk EXCEPT ![w].pc = "popped", ![w].job = m.job_id,
                          ![w].file_key = m.file_key, ![w].pops = @ + 1]
    /\ queue' = SubSeq(queue, 1, Len(queue) - 1)
    /\ UNCHANGED <<jobs, store, req, calc>>

\* mutant of PopTimeout: a popped message is taken for "no message"
PopTimeoutDropsMessage(w) ==
    /\ At(w, "waiting")
    /\ queue # <<>>
    /\ queue' = SubSeq(queue, 1, Len(queue) - 1)
    /\ End(w, "exited", Null, <<>>)
    /\ UNCHANGED <<jobs, store, req, calc>>

\* brpop returns None after the timeout: "No job found within timeout"
PopTimeout(w) ==
    /\ At(w, "waiting")
    /\ queue = <<>>
    /\ End(w, "exited", Null, <<>>)
    /\ UNCHANGED <<jobs, queue, store, req, calc>>

\* mutant of MarkProcessing: the UPDATE succeeds but matches no row
MarkProcessingNoEffect(w) ==
    /\ At(w, "popped")
    /\ \/ wk' = [wk EXCEPT ![w].pc = "download", ![w].marked = TRUE]
       \/ wk' = [wk EXCEPT ![w].pc = "download"]
    /\ UNCHANGED <<jobs, queue, store, req, calc>>

\* UPDATE jobs SET status='processing' WHERE id=:i, inside try/except:
\* a failing update is printed and ignored
MarkProcessing(w) ==
    /\ At(w, "popped")
    /\ \/ /\ jobs' = [jobs EXCEPT ![wk[w].job].status = "processing"]
          /\ wk' = [wk EXCEPT ![w].pc = "download", ![w].marked = TRUE]
       \/ Goto(w, "download")
    /\ UNCHANGED <<queue, store, req, calc>>

\* the source object is checked and fetched.  STORAGE_PROVIDER "gcs":
\* blob.exists() (False fails the job) and blob.download_to_filename, no
\* handler around either; "minio": s3.head_object and s3.download_file, a
\* ClientError of either fails the job, any other exception is not handled
Download(w) ==
    /\ At(w, "download")
    /\ \/ Goto(w, "normalize")
       \/ FailJob(w, "download", "gcs object not found", <<>>)
       \/ FailJob(w, "download", "s3 head failed", <<>>)
       \/ FailJob(w, "download", "s3 download failed", <<>>)
       \/ Raise(w)
    /\ UNCHANGED <<queue, store, req, calc>>

\* ffprobe -show_streams (a CalledProcessError is printed and ignored, any
\* other exception is not handled), then extract_audio_to_wav(src, td)
Normalize(w) ==
    /\ At(w, "normalize")
    /\ \/ Goto(w, "recognizer")
       \/ FailJob(w, "normalize", "ffmpeg failed", <<>>)
       \/ Raise(w)
    /\ UNCHANGED <<queue, store, req, calc>>

\* GCP_PROJECT_ID check, SpeechClient() (no handler), get_recognizer /
\* create_recognizer; then, inside the try of the chunk loop,
\* total_dur = _wav_duration_sec(wav); start = 0.0; idx = 0; all_words = []
Recognizer(w) ==
    /\ At(w, "recognizer")
    /\ \/ /\ \E d \in Durations :
               wk' = [wk EXCEPT ![w].pc = "loop", ![w].total_dur = d,
                                ![w].start = 0, ![w].idx = 0, ![w].all_words = <<>>]
          /\ UNCHANGED jobs
       \/ FailJob(w, "recognizer", "stt failed: GCP_PROJECT_ID missing", <<>>)
       \/ FailJob(w, "recognizer", "stt failed: recognizer create/get failed", <<>>)
       \/ FailJob(w, "duration", "stt failed (chunked)", <<>>)
       \/ Raise(w)
    /\ UNCHANGED <<queue, store, req, calc>>

\* _transcribe_wav_sync_words returns (its calls are over);
\* all_words.extend(chunk_words); start += chunk_dur; idx += 1
ChunkDone(w, chunk_dur, resp) ==
    /\ wk' = [wk EXCEPT ![w].pc = "loop",
                        ![w].calls = <<>>,
                        ![w].chunk_dur = 0,
                        ![w].all_words = @ \o WordsOut(resp, wk[w].start),
                        ![w].start = @ + chunk_dur,
                        ![w].idx = @ + 1]
    /\ UNCHANGED jobs

\* one client.recognize call with configuration cfg has raised
CallFailed(w, cfg) == Append(wk[w].calls, [cfg |-> cfg, ok |-> FALSE])

\* while start < total_dur: chunk_dur = min(CHUNK_SEC, total_dur - start);
\* _cut_wav_chunk(...); _transcribe_wav_sync_words: client.recognize with
\* the requested cfg
Recognize(w) ==
    /\ At(w, "loop")
    /\ wk[w].start < wk[w].total_dur
    /\ LET chunk_dur == Min(CHUNK_SEC, wk[w].total_dur - wk[w].start) IN
       \/ FailJob(w, "cut", "stt failed (chunked)", <<>>)
       \/ \E resp \in Responses : ChunkDone(w, chunk_dur, resp)
       \/ /\ wk' = [wk EXCEPT ![w].pc = "retry", ![w].chunk_dur = chunk_dur,
                              ![w].calls = CallFailed(w, "requested")]
          /\ UNCHANGED jobs
    /\ UNCHANGED <<queue, store, req, calc>>

\* mutant of RecognizeRetry: a second failure skips the chunk and goes on
RecognizeRetrySkipsChunk(w) ==
    /\ At(w, "retry")
    /\ \/ \E resp \in Responses : ChunkDone(w, wk[w].chunk_dur, resp)
       \/ /\ wk' = [wk EXCEPT ![w].pc = "loop",
                       ![w].calls = CallFailed(w, "minimal"),
                       ![w].chunk_dur = 0,
                       ![w].start = @ + wk[w].chunk_dur,
                       ![w].idx = @ + 1]
          /\ UNCHANGED jobs
    /\ UNCHANGED <<queue, store, req, calc>>

\* mutant of RecognizeRetry: a second failure uploads what was recognised so
\* far before the job is failed
RecognizeRetryPartialUpload(w) ==
    /\ At(w, "retry")
    /\ \/ /\ \E resp \in Responses : ChunkDone(w, wk[w].chunk_dur, resp)
          /\ UNCHANGED store
       \/ /\ store' = store \cup {SrtKey(wk[w].file_key)}
          /\ jobs' = [jobs EXCEPT ![wk[w].job].status = "failed",
                                  ![wk[w].job].error_msg = "stt failed (chunked)",
                                  ![wk[w].job].finished = TRUE]
          /\ wk' = [wk EXCEPT ![w] = [Done(w) EXCEPT
                       !.pc = "exited", !.failed_at = "recognize", !.marked = FALSE,
                       !.idx = wk[w].idx, !.calls = CallFailed(w, "minimal"),
                       !.out_key = SrtKey(wk[w].file_key)]]
    /\ UNCHANGED <<queue, req, calc>>

\* the except branch: client.recognize once more with cfg_min; an exception
\* here leaves _transcribe_wav_sync_words and reaches process's handler
\* (line 368), which fails the job
RecognizeRetry(w) ==
    /\ At(w, "retry")
    /\ \/ \E resp \in Responses : ChunkDone(w, wk[w].chunk_dur, resp)
       \/ FailJob(w, "recognize", "stt failed (chunked)", CallFailed(w, "minimal"))
    /\ UNCHANGED <<queue, store, req, calc>>

\* mutant of Upload: a failed upload is ignored and the job goes on to 'done'
UploadIgnoresFailure(w) ==
    /\ At(w, "loop")
    /\ ~(wk[w].start < wk[w].total_dur)
    /\ \/ /\ store' = store \cup {SrtKey(wk[w].file_key)}
          /\ wk' = [wk EXCEPT ![w].pc = "final", ![w].all_words = <<>>,
                              ![w].start = 0, ![w].idx = 0,
                              ![w].out_key = SrtKey(wk[w].file_key)]
          /\ UNCHANGED jobs
       \/ /\ wk' = [wk EXCEPT ![w].pc = "final", ![w].all_words = <<>>,
                              ![w].start = 0, ![w].idx = 0,
                              ![w].out_key = SrtKey(wk[w].file_key)]
          /\ UNCHANGED <<jobs, store>>
       \/ /\ Raise(w)
          /\ UNCHANGED store
    /\ UNCHANGED <<queue, req, calc>>

\* the loop is over (start >= total_dur): segment_words_to_cues / cues_to_srt
\* or the single block, out.srt is written (no handler around any of that),
\* then upload_from_filename / s3.upload_file of out_key, whose failure
\* fails the job
Upload(w) ==
    /\ At(w, "loop")
    /\ ~(wk[w].start < wk[w].total_dur)
    /\ \/ /\ store' = store \cup {SrtKey(wk[w].file_key)}
          /\ wk' = [wk EXCEPT ![w].pc = "final", ![w].all_words = <<>>,
                              ![w].start = 0, ![w].idx = 0,
                              ![w].out_key = SrtKey(wk[w].file_key)]
          /\ UNCHANGED jobs
       \/ /\ FailJob(w, "upload", "upload srt failed", <<>>)
          /\ UNCHANGED store
       \/ /\ Raise(w)
          /\ UNCHANGED store
    /\ UNCHANGED <<queue, req, calc>>

\* mutant of FinalUpdate: the UPDATE leaves srt_key out
FinalUpdateNoKey(w) ==
    /\ At(w, "final")
    /\ \/ /\ jobs' = [jobs EXCEPT ![wk[w].job].status = "done",
                                  ![wk[w].job].duration_sec = wk[w].total_dur,
                                  ![wk[w].job].finished = TRUE]
          /\ End(w, "exited", Null, <<>>)
       \/ Raise(w)
    /\ UNCHANGED <<queue, store, req, calc>>

\* UPDATE jobs SET status='done', srt_key=:s, duration_sec=:d, finished_at=now()
FinalUpdate(w) ==
    /\ At(w, "final")
    /\ \/ /\ jobs' = [jobs EXCEPT ![wk[w].job].status = "done",
                                  ![wk[w].job].srt_key = wk[w].out_key,
                                  ![wk[w].job].duration_sec = wk[w].total_dur,
                                  ![wk[w].job].finished = TRUE]
          /\ End(w, "exited", Null, <<>>)
       \/ Raise(w)
    /\ UNCHANGED <<queue, store, req, calc>>

\* mutant of Crash: the message of a killed invocation is delivered again
CrashRequeues(w) ==
    /\ wk[w].job # NoJob
    /\ wk[w].pc \notin Ended
    /\ End(w, "crashed", Null, <<>>)
    /\ queue' = Append(queue, [job_id |-> wk[w].job, file_key |-> wk[w].file_key])
    /\ UNCHANGED <<jobs, store, req, calc>>

\* the process is killed between the pop and the end of the invocation
Crash(w) ==
    /\ wk[w].job # NoJob
    /\ wk[w].pc \notin Ended
    /\ End(w, "crashed", Null, <<>>)
    /\ UNCHANGED <<jobs, queue, store, req, calc>>

Next ==
    \/ \E j \in Jobs : \/ CreateJobReject(j)
                       \/ CreateJobInsert(j)
                       \/ CreateJobPush(j)
                       \/ CreateJobPushFails(j)
    \/ \E w \in Workers : \/ Startup(w)
                          \/ Pop(w)
                          \/ PopTimeout(w)
                          \/ MarkProcessing(w)
                          \/ Download(w)
                          \/ Normalize(w)
                          \/ Recognizer(w)
                          \/ Recognize(w)
                          \/ RecognizeRetry(w)
                          \/ Upload(w)
                          \/ FinalUpdate(w)
                          \/ Crash(w)

Spec == Init /\ [][Next]_vars

\* ============================================================ data path
\* The functions the words and the subtitle text go through.  A text is the
\* sequence of its characters.  Times are whole multiples of 0.2 ms, a
\* resolution at which (t - int(t)) * 1000 is never half-way between two
\* integers, so that round() does not depend on the binary representation.
Ms(n)  == n * 5
Sec(n) == n * 5000

Digits     == {"0", "1", "2", "3", "4", "5", "6", "7", "8", "9"}
Whitespace == {" "}

Last(t) == t[Len(t)]

\* str.strip()
RECURSIVE LStrip(_)
LStrip(t) == IF t # <<>> /\ Head(t) \in Whitespace THEN LStrip(Tail(t)) ELSE t

RECURSIVE RStrip(_)
RStrip(t) ==
    IF t # <<>> /\ Last(t) \in Whitespace THEN RStrip(SubSeq(t, 1, Len(t) - 1)) ELSE t

Strip(t) == RStrip(LStrip(t))

\* str.isdigit(): not empty and every character a digit
IsDigit(t) == t # <<>> /\ \A i \in 1..Len(t) : t[i] \in Digits

\* set(t) == {"0"}
AllZeros(t) == {t[i] : i \in 1..Len(t)} = {"0"}

\* " ".join(x["word"] for x in ws)
RECURSIVE JoinWords(_)
JoinWords(ws) ==
    IF ws = <<>> THEN <<>>
    ELSE IF Len(ws) = 1 THEN ws[1].word
    ELSE ws[1].word \o <<" ">> \o JoinWords(Tail(ws))

\* ----------------------------------------------------------- srt_timestamp
\* ms = int(round((t - int(t)) * 1000)); s, m, h from int(t).  The result is
\* the four numbers the format string prints: h, m and s with at least two
\* digits, ms with at least three.
srt_timestamp(t) ==
    LET whole == t \div 5000
        ms    == ((t % 5000) + 2) \div 5
    IN  [h |-> whole \div 3600, m |-> (whole \div 60) % 60, s |-> whole % 60, ms |-> ms]

\* the literal "00:00:00,000"
ZeroStamp == [h |-> 0, m |-> 0, s |-> 0, ms |-> 0]

\* --------------------------------------------------- segment_words_to_cues
PUNCT_END    == {".", "?", "!"}
\* mutant of pause_gap: only a pause of a full second breaks
pause_gap_one_second == Ms(1000)
pause_gap == Ms(750)
\* mutant of max_duration: a cue may span seven seconds
max_duration_seven == Sec(7)
max_duration == Sec(6)
max_chars    == 84

\* one pass of the for loop, from the i-th word on: cues closed so far and
\* the pending cue cur
RECURSIVE SegmentFrom(_, _, _, _)
SegmentFrom(words, i, cues, cur) ==
    IF i > Len(words) THEN Append(cues, cur)
    ELSE
      LET prev == words[i - 1]
          w    == words[i]
          gap  == w.start - prev.end
          cur_text == JoinWords(cur)
          prev_ends_sentence == prev.word # <<>> /\ Last(prev.word) \in PUNCT_END
          would_exceed_chars == Len(cur_text) + 1 + Len(w.word) > max_chars
          would_exceed_dur   == (w.end - cur[1].start) > max_duration
      IN  IF gap >= pause_gap \/ prev_ends_sentence \/ would_exceed_chars \/ would_exceed_dur
          THEN SegmentFrom(words, i + 1, Append(cues, cur), <<w>>)
          ELSE SegmentFrom(words, i + 1, cues, Append(cur, w))

\* mutant of segment_words_to_cues: the cue pending when the loop ends is
\* not appended
SegmentLosesPendingCue(words) ==
    IF words = <<>> THEN <<>>
    ELSE LET cues == SegmentFrom(words, 2, <<>>, <<words[1]>>)
         IN  SubSeq(cues, 1, Len(cues) - 1)

segment_words_to_cues(words) ==
    IF words = <<>> THEN <<>> ELSE SegmentFrom(words, 2, <<>>, <<words[1]>>)

\* ------------------------------------------------------------- cues_to_srt
line_len == 42

\* text.rfind(" ", 0, line_len): the number of characters before the last
\* space among the first line_len characters, -1 when there is none
RFindSpace(text) ==
    LET at == {k \in 1..Min(line_len, Len(text)) : text[k] = " "}
    IN  IF at = {} THEN -1 ELSE (CHOOSE k \in at : \A l \in at : l <= k) - 1

\* wrap_2lines: the lines of the entry's text
wrap_2lines(text) ==
    IF Len(text) <= line_len THEN <<text>>
    ELSE LET found == RFindSpace(text)
             cut   == IF found = -1 THEN line_len ELSE found
         IN  << Strip(SubSeq(text, 1, cut)), Strip(SubSeq(text, cut + 1, Len(text))) >>

\* one numbered entry of the subtitle text per cue
cues_to_srt(cues) ==
    [i \in 1..Len(cues) |->
        LET cue == cues[i] IN
        [index |-> i,
         start |-> srt_timestamp(cue[1].start),
         end   |-> srt_timestamp(Last(cue).end),
         lines |-> wrap_2lines(Strip(JoinWords(cue)))]]

\* ------------------------------------------------ process, lines 365-385
\* the literal '(хоосон стенограм)' ("empty transcript"), taken as one
\* character
Placeholder == <<"(khooson stenogram)">>

\* text_out = " ".join(w["word"] for w in all_words).strip(); then the
\* subtitle text: cues from the word list as it is, or the single block
\* when there is no word.  cues is what segment_words_to_cues returned.
RenderJob(all_words, total_dur) ==
    LET text_out == Strip(JoinWords(all_words)) IN
    IF all_words # <<>>
    THEN LET cues == segment_words_to_cues(all_words)
         IN  [cues |-> cues, srt |-> cues_to_srt(cues)]
    ELSE [cues |-> <<>>,
          srt  |-> << [index |-> 1,
                       start |-> ZeroStamp,
                       end   |-> srt_timestamp(IF total_dur = 0 THEN Ms(500) ELSE total_dur),
                       lines |-> << IF text_out = <<>> THEN Placeholder ELSE text_out >>] >>]

\* ------------------------------------------- evaluating the data path
\* A data-path function is evaluated on its own: no request and no worker
\* invocation runs meanwhile.
SystemIdle ==
    /\ jobs = [j \in Jobs |-> NoRow]
    /\ queue = <<>>
    /\ store = {}
    /\ req = [j \in Jobs |-> "idle"]
    /\ wk = [w \in Workers |-> WkInit]

\* all sequences over S of at most n elements
SeqsUpTo(S, n) == UNION {[1..k -> S] : k \in 0..n}

\* word lists the recognition may have produced when the chunk loop is over:
\* noise tokens (empty, blank, zeros, digits) and a plain word
RenderTexts == { <<>>, <<" ">>, <<"0">>, <<"0", "5">>, <<"u", "u">> }
RenderWords == { Word(t, Ms(100), Sec(1)) : t \in RenderTexts }
\* measured total durations: no audio, 0.5 s, 1.9996 s, 70 s
RenderDurations == { 0, Ms(500), 9998, Sec(70) }

NoOut == [cues |-> <<>>, srt |-> <<>>]

InitRender ==
    /\ SystemIdle
    /\ calc \in { [fn |-> "render", pc |-> "loop done", all_words |-> ws,
                   total_dur |-> d, out |-> NoOut] :
                  ws \in SeqsUpTo(RenderWords, MaxWords), d \in RenderDurations }

\* process after the chunk loop, up to the text written to out.srt: no
\* branch of it calls _fail_job
Render ==
    /\ calc.fn = "render" /\ calc.pc = "loop done"
    /\ calc' = [calc EXCEPT !.pc = "rendered",
                            !.out = RenderJob(calc.all_words, calc.total_dur)]
    /\ UNCHANGED <<jobs, queue, store, req, wk>>

SpecRender == InitRender /\ [][Render]_vars

\* ------------------------------------------------ the chunk loop alone
\* total_dur and CHUNK_SEC (an environment setting) in whole seconds; the
\* pair 130, 58 is the example of the specification
ChunkInputs == ((0..MaxTotalSec) \X (1..MaxChunkSec)) \cup {<<130, 58>>}

InitChunks ==
    /\ SystemIdle
    /\ calc \in { [fn |-> "chunks", total_dur |-> in[1], chunk_sec |-> in[2],
                   start |-> 0, idx |-> 0, chunks |-> <<>>] : in \in ChunkInputs }

\* mutant of CutChunk: every chunk is cut CHUNK_SEC long
CutChunkFixedLength ==
    /\ calc.fn = "chunks"
    /\ calc.start < calc.total_dur
    /\ LET chunk_dur == calc.chunk_sec IN
         calc' = [calc EXCEPT !.chunks = Append(@, [start |-> calc.start, dur |-> chunk_dur]),
                              !.start = @ + chunk_dur,
                              !.idx = @ + 1]
    /\ UNCHANGED <<jobs, queue, store, req, wk>>

\* one iteration of "while start < total_dur": chunk_dur = min(CHUNK_SEC,
\* total_dur - start); the chunk [start, start + chunk_dur) is cut;
\* start += chunk_dur; idx += 1
CutChunk ==
    /\ calc.fn = "chunks"
    /\ calc.start < calc.total_dur
    /\ LET chunk_dur == Min(calc.chunk_sec, calc.total_dur - calc.start) IN
         calc' = [calc EXCEPT !.chunks = Append(@, [start |-> calc.start, dur |-> chunk_dur]),
                              !.start = @ + chunk_dur,
                              !.idx = @ + 1]
    /\ UNCHANGED <<jobs, queue, store, req, wk>>

SpecChunks == InitChunks /\ [][CutChunk]_vars

\* ------------------------------------------ the cue segmenter alone
\* a text of n characters "a"
Letters(n) == [i \in 1..n |-> "a"]

\* word texts: one and two characters, the end of a sentence, and a text
\* that reaches max_chars after a one-character word but not after a
\* two-character one
CueTexts == { Letters(1), <<"a", ".">>, Letters(2), Letters(max_chars - 2) }

\* start and end of a word: from 0 to 0.5 s; 0.75 s and 0.8 s after 0.5 s;
\* from 0.5 s up to 6.0 s and up to 6.0002 s
CueTimes == { <<0, Ms(500)>>, <<Ms(1250), Ms(1300)>>, <<Ms(1300), Ms(1400)>>,
              <<Ms(500), Sec(6)>>, <<Ms(500), Sec(6) + 1>> }

CueWords == { Word(t, se[1], se[2]) : t \in CueTexts, se \in CueTimes }

InitCues ==
    /\ SystemIdle
    /\ calc \in { [fn |-> "cues", pc |-> "words", words |-> ws, cues |-> <<>>] :
                  ws \in SeqsUpTo(CueWords, MaxWords) }

\* cues = segment_words_to_cues(all_words)
SegmentWords ==
    /\ calc.fn = "cues" /\ calc.pc = "words"
    /\ calc' = [calc EXCEPT !.pc = "segmented",
                            !.cues = segment_words_to_cues(calc.words)]
    /\ UNCHANGED <<jobs, queue, store, req, wk>>

SpecCues == InitCues /\ [][SegmentWords]_vars

\* ------------------------------------------------- stitching the words
\* Every chunk is StitchChunkSec long; the backend places a word at a whole
\* second of the chunk, in any order.
StitchChunkSec == 2
StitchWords     == { Word("uu", t, t) : t \in 0..StitchChunkSec }
StitchResponses == SeqsUpTo(StitchWords, MaxWords)

InitStitch ==
    /\ SystemIdle
    /\ calc = [fn |-> "stitch", idx |-> 0, start |-> 0, all_words |-> <<>>,
               base_offset |-> 0, long_words |-> <<>>]

\* google_stt_v2_long, the body of "for ch in chunks": the words of the chunk
\* are appended in the order the backend gave them, each moved by base_offset
LongWordsOut(resp, base_offset) ==
    [i \in 1..Len(resp) |->
        Word(resp[i].word, resp[i].start + base_offset, resp[i].end + base_offset)]

\* the backend's answer for the next chunk goes through both stitchers: the
\* worker's (_transcribe_wav_sync_words, then all_words.extend and
\* start += chunk_dur) and google_stt_v2_long's (base_offset += the length
\* of the chunk file)
StitchChunk ==
    /\ calc.fn = "stitch"
    /\ calc.idx < MaxChunks
    /\ \E resp \in StitchResponses :
         calc' = [calc EXCEPT !.idx = @ + 1,
                              !.all_words = @ \o WordsOut(resp, calc.start),
                              !.start = @ + StitchChunkSec,
                              !.long_words = @ \o LongWordsOut(resp, calc.base_offset),
                              !.base_offset = @ + StitchChunkSec]
    /\ UNCHANGED <<jobs, queue, store, req, wk>>

SpecStitch == InitStitch /\ [][StitchChunk]_vars

\* --------------------------------------------------- the noise filter
\* mutant of FilterFrom: all-digit words are kept unless they are all "0"
RECURSIVE FilterKeepsDigits(_, _, _)
FilterKeepsDigits(words, i, clean) ==
    IF i > Len(words) THEN clean
    ELSE LET w == words[i].word
             t == Strip(w)
         IN  IF w = <<>> \/ Strip(w) = <<>>
             THEN FilterKeepsDigits(words, i + 1, clean)
             ELSE IF AllZeros(t)
             THEN FilterKeepsDigits(words, i + 1, clean)
             ELSE FilterKeepsDigits(words, i + 1,
                                    Append(clean, Word(t, words[i].start, words[i].end)))

\* the for loop of filter_garbage_words from the i-th word on
RECURSIVE FilterFrom(_, _, _)
FilterFrom(words, i, clean) ==
    IF i > Len(words) THEN clean
    ELSE LET w == words[i].word
             t == Strip(w)
         IN  IF w = <<>> \/ Strip(w) = <<>>
             THEN FilterFrom(words, i + 1, clean)
             ELSE IF IsDigit(t)
             THEN FilterFrom(words, i + 1, clean)
             ELSE IF AllZeros(t)
             THEN FilterFrom(words, i + 1, clean)
             ELSE FilterFrom(words, i + 1,
                             Append(clean, Word(t, words[i].start, words[i].end)))

filter_garbage_words(words) == FilterFrom(words, 1, <<>>)

\* the word of the specification's example, a letter per element
Hello == <<"kh", "e", "l", "l", "o">>

\* word texts: empty, blank, zero, a digit, a padded digit, a word, a
\* padded word
FilterTexts == { <<>>, <<" ">>, <<"0">>, <<"5">>, <<" ", "5">>,
                 Hello, <<" ">> \o Hello \o <<" ">> }
FilterTimes == { <<0, 1>>, <<1, 2>>, <<2, 3>> }
FilterWords == { Word(t, se[1], se[2]) : t \in FilterTexts, se \in FilterTimes }

InitFilter ==
    /\ SystemIdle
    /\ calc \in { [fn |-> "filter", pc |-> "words", words |-> ws, clean |-> <<>>] :
                  ws \in SeqsUpTo(FilterWords, MaxWords) }

\* words = filter_garbage_words(result["words"])
FilterWordList ==
    /\ calc.fn = "filter" /\ calc.pc = "words"
    /\ calc' = [calc EXCEPT !.pc = "filtered",
                            !.clean = filter_garbage_words(calc.words)]
    /\ UNCHANGED <<jobs, queue, store, req, wk>>

SpecFilter == InitFilter /\ [][FilterWordList]_vars

\* ------------------------------------------------ gibberish detection
sample_n == 60

\* the words of the sample that are all digits or all "0"
Zeros(sample) ==
    Cardinality({ i \in 1..Len(sample) : IsDigit(sample[i].word) \/ AllZeros(sample[i].word) })

\* mutant of looks_like_zero_gibberish: a fraction of 0.6 is enough
LooksLikeGibberishFromThreshold(words) ==
    LET sample == SubSeq(words, 1, Min(sample_n, Len(words)))
    IN  IF sample = <<>> THEN FALSE
        ELSE Zeros(sample) * 5 >= 3 * Len(sample)

\* zeros / len(sample) > 0.6 over words[:sample_n], as a comparison of whole
\* numbers: for at most 60 words the quotient never rounds onto 0.6 from
\* another value, and 36 / 60 and 0.6 are the same floating-point number
looks_like_zero_gibberish(words) ==
    LET sample == SubSeq(words, 1, Min(sample_n, Len(words)))
    IN  IF sample = <<>> THEN FALSE
        ELSE Zeros(sample) * 5 > 3 * Len(sample)

\* transcribe_to_srt_string, lines 231-239: the function that builds the
\* subtitle text from result["words"]
SrtBuilder(result_words) ==
    IF result_words = <<>> THEN "text_to_srt_by_blocks"
    ELSE LET words == filter_garbage_words(result_words)
         IN  IF looks_like_zero_gibberish(words) THEN "text_to_srt_by_blocks"
             ELSE "words_to_srt"

\* a recognized list of n words of which k are numbers ("5" and "0" in
\* turn), at the front of the list or at its end
GibberishList(n, k, front) ==
    [i \in 1..n |->
        LET number == IF front THEN i <= k ELSE i > n - k
        IN  Word(IF ~number THEN <<"u", "u">> ELSE IF i % 2 = 1 THEN <<"5">> ELSE <<"0">>,
                 i - 1, i)]

InitGibberish ==
    /\ SystemIdle
    /\ \E n \in 0..MaxSample, front \in BOOLEAN :
         \E k \in 0..n :
            calc = [fn |-> "gibberish", words |-> GibberishList(n, k, front),
                    sampled |-> FALSE, gibberish |-> FALSE]

\* looks_like_zero_gibberish on the recognized list
SampleWords ==
    /\ calc.fn = "gibberish" /\ ~calc.sampled
    /\ calc' = [calc EXCEPT !.sampled = TRUE,
                            !.gibberish = looks_like_zero_gibberish(calc.words)]
    /\ UNCHANGED <<jobs, queue, store, req, wk>>

SpecGibberish == InitGibberish /\ [][SampleWords]_vars

\* --------------------------- transcribe_to_srt_string, lines 231-239
InitBuilder ==
    /\ SystemIdle
    /\ calc \in { [fn |-> "builder", words |-> ws, builder |-> Null] :
                  ws \in SeqsUpTo(FilterWords, MaxWords) }

\* the choice between text_to_srt_by_blocks and words_to_srt
BuildSrt ==
    /\ calc.fn = "builder" /\ calc.builder = Null
    /\ calc' = [calc EXCEPT !.builder = SrtBuilder(calc.words)]
    /\ UNCHANGED <<jobs, queue, store, req, wk>>

SpecBuilder == InitBuilder /\ [][BuildSrt]_vars

\* --------------------------------------------------- srt_timestamp alone
\* times around the turn of a second, of a minute and of an hour, in steps
\* of 0.2 ms: the first 2.4 ms and the last 2 ms of the second
StampSeconds   == {0, 1, 59, 60, 3599, 3600}
StampFractions == (0..12) \cup (4990..4999)
StampTimes     == { Sec(sec) + f : sec \in StampSeconds, f \in StampFractions }

InitStamp ==
    /\ SystemIdle
    /\ calc \in { [fn |-> "stamp", pc |-> "time", t |-> t, out |-> ZeroStamp] :
                  t \in StampTimes }

\* srt_timestamp(t), as cues_to_srt calls it for a cue's start and end
Stamp ==
    /\ calc.fn = "stamp" /\ calc.pc = "time"
    /\ calc' = [calc EXCEPT !.pc = "stamped", !.out = srt_timestamp(calc.t)]
    /\ UNCHANGED <<jobs, queue, store, req, wk>>

SpecStamp == InitStamp /\ [][Stamp]_vars

\* ------------------------- the chunk loop for any CHUNK_SEC setting
\* CHUNK_SEC = float(os.getenv("CHUNK_SEC", "55")): any number is taken,
\* zero and negative ones as well
ChunkSecSettings == (-1)..MaxChunkSec

InitLoop ==
    /\ SystemIdle
    /\ calc \in { [fn |-> "loop", pc |-> "while", total_dur |-> d, chunk_sec |-> c,
                   start |-> 0, idx |-> 0] :
                  d \in 0..MaxTotalSec, c \in ChunkSecSettings }

\* one iteration of "while start < total_dur" in which neither the cut nor
\* the recognition raises
LoopIteration ==
    /\ calc.fn = "loop" /\ calc.pc = "while"
    /\ calc.start < calc.total_dur
    /\ calc.idx < MaxIterations
    /\ LET chunk_dur == Min(calc.chunk_sec, calc.total_dur - calc.start) IN
         calc' = [calc EXCEPT !.start = @ + chunk_dur, !.idx = @ + 1]
    /\ UNCHANGED <<jobs, queue, store, req, wk>>

\* _cut_wav_chunk or _transcribe_wav_sync_words raises: the except clause
\* after the loop fails the job
LoopRaises ==
    /\ calc.fn = "loop" /\ calc.pc = "while"
    /\ calc.start < calc.total_dur
    /\ calc' = [calc EXCEPT !.pc = "except"]
    /\ UNCHANGED <<jobs, queue, store, req, wk>>

\* start < total_dur is false: the loop is left
LoopExit ==
    /\ calc.fn = "loop" /\ calc.pc = "while"
    /\ ~(calc.start < calc.total_dur)
    /\ calc' = [calc EXCEPT !.pc = "text_out"]
    /\ UNCHANGED <<jobs, queue, store, req, wk>>

SpecLoop == InitLoop /\ [][LoopIteration \/ LoopRaises \/ LoopExit]_vars

\* ------------------------------- create_job up to the INSERT (api.py)
\* MAX_DURATION_SEC = float(os.getenv("MAX_DURATION_SEC", "60"))
MAX_DURATION_SEC == 60

\* what a request meets: whether the checks before the plan limits pass
\* (redis configured, valid user, duration readable), the duration of the
\* file in seconds, whether get_plan_limits_for_user returns or raises, the
\* plan's max_file_seconds, and what reserve_usage answers
Submissions ==
    [pre : {"ok", "fails"}, duration : {30, 45, 60, 90},
     lookup : {"ok", "raises"}, max_file_sec : {40, 600},
     reserve : {"ok", "refused", "raises"}]

\* the try block of create_job, lines 579-588: how it is left
PlanLimits(sub) ==
    IF sub.lookup = "raises" THEN "Exception"
    ELSE IF sub.duration > sub.max_file_sec THEN "HTTPException 402 file too long"
    ELSE IF sub.reserve = "refused" THEN "HTTPException 402 limit reached"
    ELSE IF sub.reserve = "raises" THEN "Exception"
    ELSE "passed"

\* create_job, lines 566-603.  "except Exception" (589) catches whatever the
\* try block raises, the HTTPException of a refusal included (HTTPException
\* is an Exception), and falls back to MAX_DURATION_SEC.
Admission(sub) ==
    IF sub.pre = "fails" THEN "rejected"
    ELSE IF PlanLimits(sub) = "passed" THEN "insert"
    ELSE IF sub.duration > MAX_DURATION_SEC THEN "rejected"
    ELSE "insert"

InitAdmission ==
    /\ SystemIdle
    /\ calc \in { [fn |-> "create_job", pc |-> "request", sub |-> sub,
                   inserted |-> FALSE, pushed |-> FALSE] : sub \in Submissions }

\* the request is answered with an error before the INSERT
AdmissionRejects ==
    /\ calc.fn = "create_job" /\ calc.pc = "request"
    /\ Admission(calc.sub) = "rejected"
    /\ calc' = [calc EXCEPT !.pc = "error"]
    /\ UNCHANGED <<jobs, queue, store, req, wk>>

\* the request passes: INSERT INTO jobs, then r.lpush
AdmissionInserts ==
    /\ calc.fn = "create_job" /\ calc.pc = "request"
    /\ Admission(calc.sub) = "insert"
    /\ \/ calc' = [calc EXCEPT !.pc = "returned", !.inserted = TRUE, !.pushed = TRUE]
       \/ calc' = [calc EXCEPT !.pc = "error", !.inserted = TRUE]
    /\ UNCHANGED <<jobs, queue, store, req, wk>>

SpecAdmission == InitAdmission /\ [][AdmissionRejects \/ AdmissionInserts]_vars

\* ================================================================ claims
Status(j) == jobs[j].status

Rank(st) == CASE st = "none"       -> 0
              [] st = "queued"     -> 1
              [] st = "processing" -> 2
              [] OTHER             -> 3

InQueue(j) == \E i \in 1..Len(queue) : queue[i].job_id = j

\* the positions of process, from the first storage call to the last UPDATE
InProcess == {"download", "normalize", "recognizer", "loop", "retry", "final"}

\* the steps of process that come before rendering
BeforeRender == {"download", "normalize", "recognizer", "duration", "cut",
                 "recognize"}

\* C1: a job's status only moves forward along queued -> processing ->
\* {done, failed}: no step moves it back (in particular not from processing
\* to queued), and once it is done or failed no step changes it.
C1_StatusOnlyForward ==
    [][\A j \in Jobs :
         /\ Rank(jobs'[j].status) >= Rank(jobs[j].status)
         /\ jobs[j].status \in Terminal => jobs'[j].status = jobs[j].status]_vars

\* C1 witness: one job is done, another is failed, and both invocations that
\* worked on them have ended.
C1_Witness ==
    \E i, j \in Jobs :
        /\ Status(i) = "done" /\ Status(j) = "failed"
        /\ \A w \in Workers : wk[w].pc = "exited"

\* C2: for every job, srt_key is set exactly when status = done and
\* error_msg is set exactly when status = failed.
C2_KeyIffDone_MsgIffFailed ==
    \A j \in Jobs :
        /\ jobs[j].srt_key # NoKey <=> Status(j) = "done"
        /\ jobs[j].error_msg # Null <=> Status(j) = "failed"

\* C2 witness: a done job next to a failed job.
C2_Witness ==
    \E i, j \in Jobs :
        /\ Status(i) = "done" /\ jobs[i].srt_key = SrtKey(jobs[i].file_key)
        /\ Status(j) = "failed" /\ jobs[j].error_msg = "ffmpeg failed"

\* C3 (as claimed): whenever a step of process raised an error for a dequeued
\* job and the invocation has ended, by a return or by the exception, the
\* job is failed.
C3_EveryErrorFailsTheJob ==
    \A w \in Workers :
        (wk[w].job # NoJob /\ (wk[w].pc = "raised" \/
                               (wk[w].pc = "exited" /\ wk[w].failed_at # Null)))
            => Status(wk[w].job) = "failed"

\* C4 (as claimed): every job that becomes done or failed was in processing
\* immediately before.
C4_TerminalOnlyFromProcessing ==
    [][\A j \in Jobs :
         (jobs'[j].status \in Terminal /\ jobs[j].status \notin Terminal)
             => jobs[j].status = "processing"]_vars

\* C4 (amended): the UPDATE to processing is attempted after the dequeue and
\* before any step of process; when it succeeded the job is in processing
\* during process and goes to done or failed from processing; when it raised
\* the job is still queued and goes to done or failed from queued.
C4_TerminalFromProcessingIfMarked ==
    /\ [](\A w \in Workers :
            wk[w].pc \in InProcess =>
                Status(wk[w].job) = (IF wk[w].marked THEN "processing" ELSE "queued"))
    /\ [][\A j \in Jobs :
            (jobs'[j].status \in Terminal /\ jobs[j].status \notin Terminal)
                => \E w \in Workers :
                     /\ wk[w].job = j
                     /\ wk[w].pc \in InProcess
                     /\ jobs[j].status = (IF wk[w].marked THEN "processing" ELSE "queued")]_vars

\* C4 witness: an invocation whose UPDATE to processing succeeded has run
\* process up to the final UPDATE, with its job in processing.
C4_Witness ==
    \E w \in Workers :
        /\ wk[w].pc = "final" /\ wk[w].marked
        /\ Status(wk[w].job) = "processing"

\* C5: a job is done only while the object named by its srt_key is in the
\* output store, and the step that sets status = done sets srt_key to the key
\* the invocation uploaded and duration_sec to the duration it measured.
C5_DoneOnlyAfterUpload ==
    /\ [](\A j \in Jobs : Status(j) = "done" => jobs[j].srt_key \in store)
    /\ [][\A j \in Jobs :
            (jobs[j].status # "done" /\ jobs'[j].status = "done")
                => \E w \in Workers :
                     /\ wk[w].job = j /\ wk[w].pc = "final"
                     /\ wk[w].out_key = SrtKey(jobs[j].file_key)
                     /\ wk[w].out_key \in store
                     /\ jobs'[j].srt_key = wk[w].out_key
                     /\ jobs'[j].duration_sec = wk[w].total_dur]_vars

\* C5 witness: a done job whose duration_sec is the measured 70 s, not the
\* 40 s create_job stored.
C5_Witness ==
    \E j \in Jobs :
        /\ Status(j) = "done" /\ jobs[j].duration_sec = 70
        /\ jobs[j].srt_key \in store

\* C6: every message is taken by at most one invocation (and is off the
\* queue once taken), and every invocation takes at most one message.
C6_OneMessageOneInvocation ==
    \A w \in Workers :
        /\ wk[w].pops <= 1
        /\ wk[w].job # NoJob <=> wk[w].pops = 1
        /\ wk[w].job # NoJob =>
              /\ ~InQueue(wk[w].job)
              /\ \A v \in Workers \ {w} : wk[v].job # wk[w].job

\* C6 witness: two invocations are working at the same time, on different
\* jobs.
C6_Witness ==
    \E w, v \in Workers :
        /\ w # v
        /\ wk[w].pc \in InProcess /\ wk[v].pc \in InProcess
        /\ wk[w].job # wk[v].job

\* C7 (as claimed): the job of an invocation that crashed after its pop is in
\* processing.
C7_CrashedJobInProcessing ==
    \A w \in Workers : wk[w].pc = "crashed" => Status(wk[w].job) = "processing"

\* C7 (amended): after a crash between the pop and the terminal UPDATE the
\* message is not on the queue, no other invocation has the job, and the job
\* keeps for ever the status it had at the crash: processing when the UPDATE
\* to processing had been applied, queued otherwise.
C7_CrashedJobStaysAsItWas ==
    /\ [](\A w \in Workers : wk[w].pc = "crashed" =>
            /\ Status(wk[w].job) = (IF wk[w].marked THEN "processing" ELSE "queued")
            /\ ~InQueue(wk[w].job)
            /\ \A v \in Workers \ {w} : wk[v].job # wk[w].job)
    /\ [][\A w \in Workers : wk[w].pc = "crashed" =>
            jobs'[wk[w].job] = jobs[wk[w].job]]_vars

\* C7 witness: one invocation crashed with its job in processing, and a later
\* one has come, found nothing to pop and left.
C7_Witness ==
    \E w, v \in Workers :
        /\ w < v
        /\ wk[w].pc = "crashed" /\ Status(wk[w].job) = "processing"
        /\ wk[v].pc = "exited" /\ wk[v].job = NoJob

\* C8: a pop that times out happens on an empty queue, and the invocation
\* then exits leaving every job record, the queue and the object store as
\* they were.
C8_TimeoutChangesNothing ==
    [][\A w \in Workers :
         (wk[w].pc = "waiting" /\ wk'[w].pc = "exited")
             => /\ queue = <<>>
                /\ jobs' = jobs /\ queue' = queue /\ store' = store]_vars

\* C8 witness: an invocation has exited without a message while a job record
\* exists.
C8_Witness ==
    \E w \in Workers :
        /\ wk[w].pc = "exited" /\ wk[w].pops = 0
        /\ \E j \in Jobs : Status(j) # "none"

\* C9: for the chunk at hand the backend is called first with the requested
\* configuration, a second time (with the minimal one) exactly when the first
\* call failed, never a third time: a failed second call ends recognition
\* and the invocation, _fail_job is what runs next, the job is failed when
\* that UPDATE is applied and is never done.
C9_AtMostTwoCallsPerChunk ==
    /\ [](\A w \in Workers :
            LET c == wk[w].calls IN
            /\ Len(c) <= 2
            /\ Len(c) >= 1 => (c[1].cfg = "requested" /\ ~c[1].ok)
            /\ Len(c) = 2 => (c[2].cfg = "minimal" /\ ~c[2].ok)
            /\ wk[w].pc = "retry" <=> Len(c) = 1
            /\ Len(c) = 2 =>
                  /\ wk[w].pc \in {"exited", "raised"}
                  /\ Status(wk[w].job) # "done"
                  /\ wk[w].pc = "exited" =>
                        (wk[w].failed_at = "recognize" /\ Status(wk[w].job) = "failed"))
    /\ [][\A w \in Workers :
            wk[w].pc = "retry" =>
                \/ wk'[w] = wk[w]
                \/ wk'[w].pc = "loop" /\ wk'[w].idx = wk[w].idx + 1
                \/ wk'[w].pc \in Ended]_vars

\* C9 witness: both calls for a chunk have failed and the job is failed.
C9_Witness ==
    \E w \in Workers :
        /\ wk[w].calls = << [cfg |-> "requested", ok |-> FALSE],
                            [cfg |-> "minimal", ok |-> FALSE] >>
        /\ wk[w].pc = "exited" /\ Status(wk[w].job) = "failed"

\* C10: an invocation whose job failed at a step before rendering has ended
\* without uploading a subtitle object, and the job's srt_key is null.
C10_NoOutputForEarlyFailure ==
    \A w \in Workers :
        (wk[w].job # NoJob /\ wk[w].failed_at \in BeforeRender)
            => /\ wk[w].pc = "exited"
               /\ wk[w].out_key = NoKey
               /\ jobs[wk[w].job].srt_key = NoKey
               /\ Status(wk[w].job) # "done"

\* C10 witness: both calls for the second chunk failed after the first chunk
\* had been recognised; the job is failed and has no srt_key.
C10_Witness ==
    \E w \in Workers :
        /\ wk[w].pc = "exited" /\ wk[w].failed_at = "recognize" /\ wk[w].idx = 1
        /\ Status(wk[w].job) = "failed" /\ jobs[wk[w].job].error_msg = "stt failed (chunked)"
        /\ wk[w].out_key = NoKey /\ jobs[wk[w].job].srt_key = NoKey

\* the timestamp that denotes t to the nearest millisecond
StampOf(t) ==
    LET total_ms == (t + 2) \div 5
    IN  [h  |-> total_ms \div 3600000, m |-> (total_ms \div 60000) % 60,
         s  |-> (total_ms \div 1000) % 60, ms |-> total_ms % 1000]

\* C11 (as claimed): when the chunk loop ends with an empty word list the
\* subtitle is one cue, numbered 1, from 00:00:00,000 to the measured total
\* duration, whose text is the flat transcript or, when that is empty, the
\* placeholder.
C11_EmptyWordsSingleCue ==
    (calc.fn = "render" /\ calc.pc = "rendered" /\ calc.all_words = <<>>)
        => LET srt == calc.out.srt IN
           /\ Len(srt) = 1
           /\ srt[1].index = 1
           /\ srt[1].start = ZeroStamp
           /\ srt[1].end = StampOf(calc.total_dur)
           /\ srt[1].lines = <<Placeholder>>

RECURSIVE SumDur(_)
SumDur(cs) == IF cs = <<>> THEN 0 ELSE cs[1].dur + SumDur(Tail(cs))

\* C12: for total duration T > 0 and maximum chunk duration M > 0 the chunks
\* cut so far start at 0, each next one starts where the previous one ends,
\* none is longer than M or empty, and every one with a successor is exactly
\* M long; when the loop is over there is at least one chunk and the
\* durations sum to T.  T = 130, M = 58 ends with starts 0, 58, 116 and
\* durations 58, 58, 14.
C12_ChunksCoverTheAudio ==
    (calc.fn = "chunks" /\ calc.total_dur > 0 /\ calc.chunk_sec > 0)
        => LET cs == calc.chunks
               T  == calc.total_dur
               M  == calc.chunk_sec
           IN
           /\ cs # <<>> => cs[1].start = 0
           /\ \A i \in 1..Len(cs) : cs[i].dur > 0 /\ cs[i].dur <= M
           /\ \A i \in 1..(Len(cs) - 1) :
                 /\ cs[i + 1].start = cs[i].start + cs[i].dur
                 /\ cs[i].dur = M
           /\ SumDur(cs) <= T
           /\ ~(calc.start < T) =>
                 /\ cs # <<>>
                 /\ SumDur(cs) = T
                 /\ (T = 130 /\ M = 58) =>
                       cs = << [start |-> 0, dur |-> 58], [start |-> 58, dur |-> 58],
                               [start |-> 116, dur |-> 14] >>

\* C12 witness: the loop is over for 130 s of audio cut at 58 s, with a
\* shorter last chunk.
C12_Witness ==
    /\ calc.fn = "chunks" /\ calc.total_dur = 130 /\ calc.chunk_sec = 58
    /\ ~(calc.start < calc.total_dur)
    /\ Len(calc.chunks) = 3 /\ calc.chunks[3].dur = 14

NonDecreasing(ws) == \A i \in 1..(Len(ws) - 1) : ws[i].start <= ws[i + 1].start

\* C13 (as claimed): after any number of chunks, whatever words the backend
\* returned for them and in whatever order, the stitched word list is
\* non-decreasing in start time -- the worker's list and the list of
\* google_stt_v2_long alike.
C13_StitchedWordsNonDecreasing ==
    (calc.fn = "stitch" /\ calc.idx >= 1)
        => /\ NonDecreasing(calc.all_words)
           /\ NonDecreasing(calc.long_words)

\* the part of C13 that holds: the worker's list
WorkerWordsNonDecreasing ==
    (calc.fn = "stitch" /\ calc.idx >= 1) => NonDecreasing(calc.all_words)

Segmented == calc.fn = "cues" /\ calc.pc = "segmented"

RECURSIVE Flatten(_)
Flatten(groups) == IF groups = <<>> THEN <<>> ELSE Head(groups) \o Flatten(Tail(groups))

\* C14: for a non-empty word list every cue of the segmenter's result is a
\* non-empty group of words and the cues, one after the other, are the input
\* list: no word lost, duplicated or moved.
C14_CuesPartitionTheWords ==
    (Segmented /\ calc.words # <<>>)
        => /\ \A k \in 1..Len(calc.cues) : calc.cues[k] # <<>>
           /\ Flatten(calc.cues) = calc.words

C14_Witness ==
    /\ Segmented
    /\ Len(calc.words) = 3
    /\ Len(calc.cues) = 2
    /\ Len(calc.cues[1]) = 2

\* the positions in the word list at which a cue of the result ends
CueEnds == { Len(Flatten(SubSeq(calc.cues, 1, k))) : k \in 1..Len(calc.cues) }

\* the position at which the cue holding the i-th word begins
CueStart(i) ==
    LET before == { e \in CueEnds : e < i }
    IN  IF before = {} THEN 1 ELSE 1 + CHOOSE e \in before : \A f \in before : f <= e

\* the rules of C15 for the words i and i + 1, the pending cue being the
\* words from CueStart(i) to i
BreakRule(i) ==
    LET ws      == calc.words
        pending == SubSeq(ws, CueStart(i), i)
    IN  \/ ws[i + 1].start - ws[i].end >= Ms(750)
        \/ ws[i].word # <<>> /\ Last(ws[i].word) \in {".", "?", "!"}
        \/ Len(JoinWords(pending)) + 1 + Len(ws[i + 1].word) > 84
        \/ ws[i + 1].end - pending[1].start > Sec(6)

\* C15: a cue ends between the words i and i + 1 exactly when one of the four
\* rules holds for them (pause of at least 0.75 s, end of a sentence, more
\* than 84 characters, more than 6.0 s).
C15_BreakIffARuleHolds ==
    Segmented
        => \A i \in 1..(Len(calc.words) - 1) : (i \in CueEnds) <=> BreakRule(i)

\* a pause of 0.8 s alone made the break
C15_Witness ==
    /\ Segmented
    /\ Len(calc.words) = 2
    /\ calc.words[2].start - calc.words[1].end = Ms(800)
    /\ Last(calc.words[1].word) \notin {".", "?", "!"}
    /\ Len(calc.words[1].word) + 1 + Len(calc.words[2].word) <= 84
    /\ calc.words[2].end - calc.words[1].start <= Sec(6)
    /\ Len(calc.cues) = 2

\* C16: a cue of two or more words has a joined text of at most 84
\* characters and spans at most 6.0 s from its first word's start to its
\* last word's end.
C16_LongCuesWithinLimits ==
    Segmented
        => \A k \in 1..Len(calc.cues) :
             LET cue == calc.cues[k] IN
             Len(cue) >= 2 => /\ Len(JoinWords(cue)) <= 84
                              /\ Last(cue).end - cue[1].start <= Sec(6)

\* a two-word cue exactly at both limits, after a cue closed by a limit
C16_Witness ==
    /\ Segmented
    /\ Len(calc.cues) = 2
    /\ Len(calc.cues[1]) = 1
    /\ Last(calc.cues[1][1].word) \notin {".", "?", "!"}
    /\ calc.cues[2][1].start - calc.cues[1][1].end < Ms(750)
    /\ Len(calc.cues[2]) = 2
    /\ Len(JoinWords(calc.cues[2])) = 84
    /\ Last(calc.cues[2]).end - calc.cues[2][1].start = Sec(6)

\* a word text the noise filter is to drop: empty, blank, all digits, all "0"
Noise(t) ==
    \/ t = <<>>
    \/ \A i \in 1..Len(t) : t[i] = " "
    \/ \A i \in 1..Len(t) : t[i] \in Digits
    \/ \A i \in 1..Len(t) : t[i] = "0"

\* C17 (as claimed): when the job's subtitle text has been rendered, no cue
\* the segmenter was given to build holds a noise word.
C17_NoNoiseWordInACue ==
    (calc.fn = "render" /\ calc.pc = "rendered")
        => \A k \in 1..Len(calc.out.cues) :
             \A i \in 1..Len(calc.out.cues[k]) : ~Noise(calc.out.cues[k][i].word)

Filtered == calc.fn = "filter" /\ calc.pc = "filtered"

\* the text without the blanks around it
RECURSIVE Trimmed(_)
Trimmed(t) ==
    IF t = <<>> THEN t
    ELSE IF t[1] = " " THEN Trimmed(Tail(t))
    ELSE IF t[Len(t)] = " " THEN Trimmed(SubSeq(t, 1, Len(t) - 1))
    ELSE t

\* the words C18 keeps: text non-empty after trimming and not all digits
Kept(w) ==
    /\ Trimmed(w.word) # <<>>
    /\ \E i \in 1..Len(Trimmed(w.word)) : Trimmed(w.word)[i] \notin Digits

\* C18 (as claimed): the filter returns exactly the kept words of the input,
\* as they are, in the input order.
C18_FilterReturnsTheKeptWords ==
    Filtered => calc.clean = SelectSeq(calc.words, Kept)

\* C18 (amended): the filter returns the kept words of the input in the
\* input order, each with its text trimmed and its start and end unchanged.
C18_FilterReturnsTheKeptWordsTrimmed ==
    Filtered
        => LET kept == SelectSeq(calc.words, Kept) IN
           /\ Len(calc.clean) = Len(kept)
           /\ \A i \in 1..Len(kept) :
                /\ calc.clean[i].word = Trimmed(kept[i].word)
                /\ calc.clean[i].start = kept[i].start
                /\ calc.clean[i].end = kept[i].end

\* the example of the specification
C18_Witness ==
    /\ Filtered
    /\ calc.words = << Word(<<"0">>, 0, 1), Word(<<"5">>, 1, 2), Word(Hello, 2, 3) >>
    /\ calc.clean = << Word(Hello, 2, 3) >>

\* the all-digit words among the first n words of the recognized list
NumbersAmongFirst(n) ==
    Cardinality({ i \in 1..Min(n, Len(calc.words)) :
                    /\ calc.words[i].word # <<>>
                    /\ \A c \in 1..Len(calc.words[i].word) : calc.words[i].word[c] \in Digits })

\* C19 (as claimed): when more than 60% of the first 60 words of the
\* recognized, unfiltered list are numbers, the subtitle text is built by
\* text_to_srt_by_blocks.
C19_GibberishRendersBlocks ==
    (calc.fn = "builder" /\ calc.builder # Null /\ calc.words # <<>>
       /\ NumbersAmongFirst(60) * 100 > 60 * Min(60, Len(calc.words)))
        => calc.builder = "text_to_srt_by_blocks"

\* C20 (as claimed): of 60 sampled words, 36 or more numbers give true and
\* 35 give false.
C20_ThirtySixOfSixty ==
    (calc.fn = "gibberish" /\ calc.sampled /\ Len(calc.words) >= 60)
        => /\ NumbersAmongFirst(60) >= 36 => calc.gibberish = TRUE
           /\ NumbersAmongFirst(60) = 35 => calc.gibberish = FALSE

\* C20 (amended): of 60 sampled words, 37 or more numbers give true and 36
\* or fewer give false.
C20_ThirtySevenOfSixty ==
    (calc.fn = "gibberish" /\ calc.sampled /\ Len(calc.words) >= 60)
        => /\ NumbersAmongFirst(60) >= 37 => calc.gibberish = TRUE
           /\ NumbersAmongFirst(60) <= 36 => calc.gibberish = FALSE

\* exactly 60 words, 36 of them numbers: not gibberish
C20_Witness ==
    /\ calc.fn = "gibberish"
    /\ calc.sampled
    /\ Len(calc.words) = 60
    /\ NumbersAmongFirst(60) = 36
    /\ calc.gibberish = FALSE

\* the milliseconds a stamp denotes
StampMillis(st) == ((st.h * 60 + st.m) * 60 + st.s) * 1000 + st.ms

\* C21 (as claimed): the stamp of a time has minutes and seconds from 00 to
\* 59 and a millisecond field of three digits, 000 to 999, and denotes the
\* time rounded to the nearest millisecond.
C21_StampIsWellFormed ==
    (calc.fn = "stamp" /\ calc.pc = "stamped")
        => /\ calc.out.h >= 0
           /\ calc.out.m \in 0..59
           /\ calc.out.s \in 0..59
           /\ calc.out.ms \in 0..999
           /\ StampMillis(calc.out) = (calc.t + 2) \div 5

\* the part of C21 that holds: the value the stamp denotes
StampDenotesTheRoundedTime ==
    (calc.fn = "stamp" /\ calc.pc = "stamped")
        => StampMillis(calc.out) = (calc.t + 2) \div 5

\* C22 (as claimed): every entry of the rendered subtitle text has a body:
\* a line that is not empty, the placeholder when there is no text.
C22_NoEntryWithoutBody ==
    (calc.fn = "render" /\ calc.pc = "rendered")
        => \A k \in 1..Len(calc.out.srt) :
             /\ calc.out.srt[k].lines # <<>>
             /\ \A l \in 1..Len(calc.out.srt[k].lines) : calc.out.srt[k].lines[l] # <<>>

\* the part of C22 that holds: the single block written when no word was
\* recognized carries the placeholder
SingleBlockHasPlaceholder ==
    (calc.fn = "render" /\ calc.pc = "rendered" /\ calc.all_words = <<>>)
        => /\ Len(calc.out.srt) = 1
           /\ calc.out.srt[1].lines = <<Placeholder>>

\* the step changes the row of job j as one lifecycle UPDATE may
LifecycleWrite(j) ==
    \/ /\ jobs'[j].status = "processing"
       /\ jobs'[j] = [jobs[j] EXCEPT !.status = "processing"]
    \/ /\ jobs'[j].status = "failed"
       /\ jobs'[j].finished
       /\ jobs'[j] = [jobs[j] EXCEPT !.status = "failed",
                                     !.error_msg = jobs'[j].error_msg,
                                     !.finished = TRUE]
    \/ /\ jobs'[j].status = "done"
       /\ jobs'[j].finished
       /\ jobs'[j] = [jobs[j] EXCEPT !.status = "done",
                                     !.srt_key = jobs'[j].srt_key,
                                     !.duration_sec = jobs'[j].duration_sec,
                                     !.finished = TRUE]

\* C23: a step that changes an existing row changes the row of the job one
\* invocation holds, as one lifecycle UPDATE may (processing: status; failed:
\* status, error_msg, finished_at; done: status, srt_key, duration_sec,
\* finished_at), and changes no other row.
C23_UpdatesWriteTheirFieldsOnly ==
    [][\A j \in Jobs :
         (jobs[j].status # "none" /\ jobs'[j] # jobs[j])
            => /\ \E w \in Workers : wk[w].job = j /\ wk'[w] # wk[w]
               /\ LifecycleWrite(j)
               /\ \A i \in Jobs \ {j} : jobs'[i] = jobs[i]]_vars

\* C23 witness: one job done and one failed after the recognizer was built,
\* each row showing its own update only
C23_Witness ==
    \E j, i \in Jobs :
        /\ jobs[j].status = "done" /\ jobs[j].error_msg = Null
        /\ jobs[j].srt_key # NoKey /\ jobs[j].duration_sec = 70
        /\ jobs[i].status = "failed" /\ jobs[i].error_msg # Null
        /\ jobs[i].srt_key = NoKey /\ jobs[i].duration_sec = 40
        /\ \E w \in Workers : wk[w].job = i /\ wk[w].failed_at = "recognize"

\* the jobs whose messages are in the list q, and the place of a job's
\* message in it
Queued(q)   == { q[k].job_id : k \in 1..Len(q) }
Place(q, j) == CHOOSE k \in 1..Len(q) : q[k].job_id = j

\* job a's message was pushed before job b's, both being in the list q
\* (of a list that keeps C24's first part, the earlier push is further right)
Older(q, a, b) ==
    /\ a \in Queued(q) /\ b \in Queued(q)
    /\ Place(q, a) > Place(q, b)

\* C24: a push puts the message behind every message already in the queue
\* and changes nothing about those; and no step pops the message of a job
\* while a message pushed before it is in the queue.
C24_PopsInPushOrder ==
    /\ [][\A b \in Jobs :
            (b \notin Queued(queue) /\ b \in Queued(queue'))
               => /\ req[b] = "inserted" /\ req'[b] = "pushed"
                  /\ \A a \in Queued(queue) : Older(queue', a, b)
                  /\ \A a, c \in Queued(queue) :
                        Older(queue, a, c) => Older(queue', a, c)]_vars
    /\ [][\A a, b \in Jobs :
            Older(queue, a, b)
               => /\ ~ \E w \in Workers : wk[w].job = NoJob /\ wk'[w].job = b
                  /\ b \in Queued(queue')
                  /\ a \in Queued(queue') => Older(queue', a, b)]_vars

\* C24 witness: job 2 was pushed first and is taken first, job 1's message
\* still waiting
C24_Witness ==
    /\ req[2] = "pushed" /\ req[1] = "pushed"
    /\ queue = <<Msg(1)>>
    /\ \E w \in Workers : wk[w].job = 2 /\ wk[w].pc = "popped"

\* C25 (as claimed): every iteration of the chunk loop moves start forward,
\* and never past the total duration, so that the loop is over after
\* finitely many iterations -- whatever CHUNK_SEC is set to.
C25_EveryIterationAdvances ==
    [][(calc.fn = "loop" /\ calc'.idx = calc.idx + 1)
         => /\ calc'.start > calc.start
            /\ calc'.start <= calc.total_dur]_vars

\* the part of C25 that holds: with a positive CHUNK_SEC every iteration
\* moves start forward
PositiveChunkSecAdvances ==
    [][(calc.fn = "loop" /\ calc.chunk_sec > 0 /\ calc'.idx = calc.idx + 1)
         => /\ calc'.start > calc.start
            /\ calc'.start <= calc.total_dur]_vars

\* C26 (as claimed): when the plan lookup succeeds and the file is longer
\* than the plan's max_file_seconds, or the usage reservation is refused, the
\* request ends with no job record inserted and no message pushed.
C26_OverLimitIsRejected ==
    (calc.fn = "create_job" /\ calc.pc # "request"
       /\ calc.sub.pre = "ok" /\ calc.sub.lookup = "ok"
       /\ (calc.sub.duration > calc.sub.max_file_sec \/ calc.sub.reserve = "refused"))
        => ~calc.inserted /\ ~calc.pushed

\* the part of C26 that holds: a file longer than MAX_DURATION_SEC that the
\* plan refuses is rejected
OverLimitAndLongIsRejected ==
    (calc.fn = "create_job" /\ calc.pc # "request"
       /\ calc.sub.pre = "ok" /\ calc.sub.lookup = "ok"
       /\ (calc.sub.duration > calc.sub.max_file_sec \/ calc.sub.reserve = "refused")
       /\ calc.sub.duration > 60)
        => ~calc.inserted /\ ~calc.pushed

\* create_job has finished for the request, with a result or with an error
Answered(j) == req[j] \in {"rejected", "pushed", "enqueue_failed"}

\* C27 (as claimed): a message is in the queue only for a job whose record
\* exists, and once create_job has finished the job's record exists exactly
\* when its message was pushed.
C27_RecordIffMessage ==
    \A j \in Jobs :
        /\ InQueue(j) => jobs[j].status # "none"
        /\ Answered(j) => (jobs[j].status # "none" <=> req[j] = "pushed")

\* the part of C27 that holds: the message is pushed after the record was
\* inserted as queued
PushedOnlyAfterInsert ==
    [][\A j \in Jobs :
         (~InQueue(j) /\ \E k \in 1..Len(queue') : queue'[k].job_id = j)
            => jobs[j].status = "queued"]_vars

====
